---- MODULE Spec2Model ----
(***************************************************************************)
(* A model of tfutils: the optimizer wrappers of tfutils/optimizer.py      *)
(* (ClipOptimizer, MinibatchOptimizer), the minibatch training loop of     *)
(* tfutils/defaults.py (train_loop) and the layer recorder of              *)
(* tfutils/model.py (ConvNet).                                             *)
(*                                                                         *)
(* Tensor values are exact rationals <<numerator, denominator>> in lowest  *)
(* terms; a graph run (sess.run) is a sequence of operation executions in  *)
(* any order the graph's data and control dependencies allow.              *)
(***************************************************************************)
EXTENDS Integers, Sequences, FiniteSets, TLC

\* ------------------------------------------------------------- bounds
NumVars == 2      \* trainable variables of the optimizer model
MaxGrad == 2      \* minibatch gradient values are 1..MaxGrad
MaxN == 3         \* num_minibatches ranges over 1..MaxN

\* ------------------------------------------------------------- values
\* Python's None, and an attribute that was never assigned (longer than any
\* list of variables, so that it equals none)
None == <<>>
Unset == [i \in 1..(NumVars + 1) |-> "unset"]

Abs(n) == IF n < 0 THEN -n ELSE n

RECURSIVE GCD(_, _)
GCD(a, b) == IF b = 0 THEN a ELSE GCD(b, a % b)

\* the rational n/d (d > 0) in lowest terms
Norm(n, d) == LET g == GCD(Abs(n), d) IN <<n \div g, d \div g>>

Zero == Norm(0, 1)

RAdd(x, y) == Norm(x[1] * y[2] + y[1] * x[2], x[2] * y[2])

RLess(x, y) == x[1] * y[2] < y[1] * x[2]

\* tf.divide(x, k) for a positive integer k
Divide(x, k) == Norm(x[1], x[2] * k)

Vars == 1..NumVars
GradVals == 1..MaxGrad

\* ------------------------------------------------------------- state
VARIABLES
    \* MinibatchOptimizer (graph construction)
    phase,            \* which of compute/accumulate/apply_gradients have been called
    var_list,         \* self.var_list
    gvs,              \* per position: does compute_gradients give a gradient (or None)
    grads_and_vars,   \* self.grads_and_vars: None, or the slots' variables
    num_minibatches,  \* the divisor captured by _add_op/_set_op
    mini_flag_attr,   \* the graph node the attribute self.mini_flag refers to
    reset_input,      \* the ref input of the assign built by apply_gradients
    \* MinibatchOptimizer (graph state)
    mini_flag,        \* value of the flag variable
    acc,              \* value of each accumulator slot
    \* train_loop / session
    tl_active,        \* inside a train_loop call
    loop_n,           \* train_loop's num_minibatches
    minibatch,        \* accumulation-only runs completed in this call
    fetch,            \* the sess.run in progress: "none", "grads" or "all"
    done,             \* operations executed in the run in progress
    mgv,              \* value of each minibatch gradient in this run
    out,              \* output of each variable's tf.cond in this run
    sum_g,            \* sum of the minibatch gradients the first variable has seen
                      \* in this call (kept when the call's num_minibatches is the
                      \* graph's divisor): what the mean of the call is read from
    applied,          \* what the wrapped optimizer's apply_gradients was given
    n_accum,          \* executions of the accumulation target in this train_loop call
    n_apply,          \* executions of the optimizer-apply target in this call
    opt_error         \* the exception the last construction call raised, or None

optVars == <<phase, var_list, gvs, grads_and_vars, num_minibatches, mini_flag_attr,
             reset_input, mini_flag, acc, tl_active, loop_n, minibatch, fetch,
             done, mgv, out, sum_g, applied, n_accum, n_apply, opt_error>>


\* ------------------------------------------------------------- graph nodes
CondOp(i) == <<"cond", i>>
SetOp == <<"set", 0>>
ResetOp == <<"reset", 0>>
UpdateOps == <<"update_ops", 0>>
OptimizeOp == <<"optimize", 0>>

\* (mutant) a None minibatch gradient is not told apart
Present_all == Vars

\* positions whose minibatch gradient is not None
Present == {i \in Vars : gvs[i]}

\* only_grads_without_None
only_grads_without_None == {CondOp(i) : i \in Present}

\* the list accumulate_gradients returns with the flag: (only_grad, variable)
\* for the positions whose only_grad is not None
grads ==
    LET pairs == [i \in 1..NumVars |-> [grad |-> CondOp(i), var |-> i]]
    IN SelectSeq(pairs, LAMBDA gv : gv.var \in Present)

\* (mutant) the set-to-1 assign built outside the control_dependencies block
SetFlagDeps_NoControl == {}

\* with tf.control_dependencies(only_grads_without_None): the set-to-1 assign
SetFlagDeps == only_grads_without_None

\* (mutant) the reset assigns to the flag variable itself, not to the set-to-1 output
ResetFlagDeps_NoRefEdge == {}

\* tf.assign(self.mini_flag, 0): self.mini_flag is by then the output of the
\* set-to-1 assign, a ref edge from that node
ResetFlagDeps == IF reset_input = "set_op" THEN {SetOp} ELSE {}

\* with tf.control_dependencies([self.mini_flag] + extra_ops), plus the data
\* edges from grads_and_vars (the tf.cond outputs)
OptimizeDeps == {ResetOp, UpdateOps} \cup only_grads_without_None

\* what a sess.run of the given targets executes
Needed(f) ==
    IF f = "grads" THEN only_grads_without_None \cup {SetOp}
    ELSE IF f = "all"
    THEN only_grads_without_None \cup {SetOp, ResetOp, UpdateOps, OptimizeOp}
    ELSE {}

\* ------------------------------------------------------------- accumulate
\* tf.add: the sum is returned, the slot keeps its value
_add_op(gv_tmp, mgv_tmp) ==
    [slot |-> gv_tmp, value |-> RAdd(gv_tmp, Divide(mgv_tmp, num_minibatches))]

\* (mutant) the first minibatch adds into the slot instead of overwriting it
_set_op_assign_add(gv_tmp, mgv_tmp) ==
    [slot |-> RAdd(gv_tmp, Divide(mgv_tmp, num_minibatches)),
     value |-> RAdd(gv_tmp, Divide(mgv_tmp, num_minibatches))]

\* tf.assign: the slot is overwritten, the new value is returned
_set_op(gv_tmp, mgv_tmp) ==
    [slot |-> Divide(mgv_tmp, num_minibatches),
     value |-> Divide(mgv_tmp, num_minibatches)]

\* tf.cond(tf.less(self.mini_flag[0], 0.5), _set_op, _add_op)
CondBranch(flag, gv_tmp, mgv_tmp) ==
    IF 2 * flag < 1 THEN _set_op(gv_tmp, mgv_tmp) ELSE _add_op(gv_tmp, mgv_tmp)

NoOut == [i \in Vars |-> None]

\* ------------------------------------------------------------- construction
OptInit ==
    /\ phase = "constructed"
    /\ var_list = Unset
    /\ gvs = [i \in Vars |-> FALSE]
    /\ grads_and_vars = None
    /\ num_minibatches = 0
    /\ mini_flag_attr = "variable"
    /\ reset_input = None
    /\ mini_flag = 0
    /\ acc = [i \in Vars |-> Zero]
    /\ tl_active = FALSE
    /\ loop_n = 0
    /\ minibatch = 0
    /\ fetch = "none"
    /\ done = {}
    /\ mgv = NoOut
    /\ out = NoOut
    /\ sum_g = 0
    /\ applied = Unset
    /\ n_accum = 0
    /\ n_apply = 0
    /\ opt_error = None

\* MinibatchOptimizer.compute_gradients
compute_gradients ==
    /\ phase = "constructed"
    /\ \E g \in [Vars -> BOOLEAN] : gvs' = g
    /\ var_list' = [i \in Vars |-> i]
    /\ phase' = "computed"
    /\ opt_error' = None
    /\ UNCHANGED <<n_accum, n_apply,
                   grads_and_vars, num_minibatches, mini_flag_attr, reset_input,
                   mini_flag, acc, tl_active, loop_n, minibatch, fetch, done,
                   mgv, out, sum_g, applied>>

\* MinibatchOptimizer.accumulate_gradients (builds the accumulation operation)
accumulate_gradients ==
    /\ phase = "computed"
    /\ \E n \in 1..MaxN : num_minibatches' = n
    /\ grads_and_vars' = IF grads_and_vars = None THEN var_list ELSE grads_and_vars
    /\ mini_flag_attr' = "set_op"
    /\ phase' = "accumulated"
    /\ UNCHANGED <<n_accum, n_apply, opt_error,
                   var_list, gvs, reset_input, mini_flag, acc, tl_active, loop_n,
                   minibatch, fetch, done, mgv, out, sum_g, applied>>

\* AttributeError: 'MinibatchOptimizer' object has no attribute 'var_list'
AttributeError == <<"AttributeError", "var_list">>

\* (mutant) the flag attribute is re-bound before the variable list is read
accumulate_gradients_raises_late ==
    /\ phase = "constructed"
    /\ grads_and_vars = None
    /\ var_list = Unset
    /\ mini_flag_attr' = "set_op"
    /\ opt_error' = AttributeError
    /\ UNCHANGED <<phase, var_list, gvs, grads_and_vars, num_minibatches,
                   reset_input, mini_flag, acc, tl_active, loop_n, minibatch, fetch,
                   done, mgv, out, sum_g, applied, n_accum, n_apply>>

\* MinibatchOptimizer.accumulate_gradients called before any compute_gradients:
\* self.grads_and_vars is None, and reading self.var_list raises before anything
\* is assigned
accumulate_gradients_raises ==
    /\ phase = "constructed"
    /\ grads_and_vars = None
    /\ var_list = Unset
    /\ opt_error' = AttributeError
    /\ UNCHANGED <<phase, var_list, gvs, grads_and_vars, num_minibatches,
                   mini_flag_attr, reset_input, mini_flag, acc, tl_active, loop_n,
                   minibatch, fetch, done, mgv, out, sum_g, applied, n_accum,
                   n_apply>>

\* ---- the construction calls made at any time, on any variable list
\* the variable lists the wrapped compute_gradients may return: the non-empty
\* lists of distinct variables
VarLists ==
    UNION {{vl \in [1..n -> Vars] : \A i, j \in 1..n : vl[i] = vl[j] => i = j}
           : n \in 1..NumVars}

\* MinibatchOptimizer.compute_gradients, called again or for another loss
compute_gradients_call ==
    \E vl \in VarLists :
        /\ \E g \in [1..Len(vl) -> BOOLEAN] : gvs' = g
        /\ var_list' = vl
        /\ phase' = "computed"
        /\ opt_error' = None
        /\ UNCHANGED <<n_accum, n_apply,
                       grads_and_vars, num_minibatches, mini_flag_attr, reset_input,
                       mini_flag, acc, tl_active, loop_n, minibatch, fetch, done,
                       mgv, out, sum_g, applied>>

\* MinibatchOptimizer.accumulate_gradients, called once the variable list is set:
\* the slots are created only when self.grads_and_vars is None
accumulate_gradients_call ==
    /\ var_list # Unset
    /\ \E n \in 1..MaxN : num_minibatches' = n
    /\ grads_and_vars' = IF grads_and_vars = None THEN var_list ELSE grads_and_vars
    /\ mini_flag_attr' = "set_op"
    /\ phase' = "accumulated"
    /\ UNCHANGED <<n_accum, n_apply, opt_error,
                   var_list, gvs, reset_input, mini_flag, acc, tl_active, loop_n,
                   minibatch, fetch, done, mgv, out, sum_g, applied>>

\* MinibatchOptimizer.apply_gradients (builds the apply operation)
apply_gradients ==
    /\ phase = "accumulated"
    /\ reset_input' = mini_flag_attr
    /\ mini_flag_attr' = "reset_op"
    /\ phase' = "ready"
    /\ UNCHANGED <<n_accum, n_apply, opt_error,
                   var_list, gvs, grads_and_vars, num_minibatches, mini_flag, acc,
                   tl_active, loop_n, minibatch, fetch, done, mgv, out, sum_g,
                   applied>>

\* ------------------------------------------------------------- train_loop
train_loop ==
    /\ phase = "ready"
    /\ ~tl_active
    /\ \E n \in 1..MaxN : loop_n' = n
    /\ tl_active' = TRUE
    /\ minibatch' = 0
    /\ sum_g' = 0
    /\ applied' = Unset
    /\ n_accum' = 0
    /\ n_apply' = 0
    /\ UNCHANGED <<opt_error,
                   phase, var_list, gvs, grads_and_vars, num_minibatches,
                   mini_flag_attr, reset_input, mini_flag, acc, fetch, done, mgv, out>>

\* sess.run([target['__grads__'] for target in train_targets]) is entered
SessRunGrads ==
    /\ tl_active
    /\ fetch = "none"
    /\ minibatch < loop_n - 1
    /\ fetch' = "grads"
    /\ UNCHANGED <<n_accum, n_apply, opt_error,
                   phase, var_list, gvs, grads_and_vars, num_minibatches,
                   mini_flag_attr, reset_input, mini_flag, acc, tl_active, loop_n,
                   minibatch, done, mgv, out, sum_g, applied>>

\* (mutant) the run of all targets does not wait for the accumulation-only runs
SessRunAll_early ==
    /\ tl_active
    /\ fetch = "none"
    /\ minibatch <= loop_n - 1
    /\ fetch' = "all"
    /\ UNCHANGED <<n_accum, n_apply, opt_error,
                   phase, var_list, gvs, grads_and_vars, num_minibatches,
                   mini_flag_attr, reset_input, mini_flag, acc, tl_active, loop_n,
                   minibatch, done, mgv, out, sum_g, applied>>

\* sess.run(train_targets) is entered
SessRunAll ==
    /\ tl_active
    /\ fetch = "none"
    /\ minibatch = loop_n - 1
    /\ fetch' = "all"
    /\ UNCHANGED <<n_accum, n_apply, opt_error,
                   phase, var_list, gvs, grads_and_vars, num_minibatches,
                   mini_flag_attr, reset_input, mini_flag, acc, tl_active, loop_n,
                   minibatch, done, mgv, out, sum_g, applied>>

Runnable(op, deps) ==
    /\ fetch # "none"
    /\ op \in Needed(fetch)
    /\ op \notin done
    /\ deps \subseteq done

Executed(op) == done' = done \cup {op}

\* one variable's tf.cond executes on this minibatch's gradient
RunCond ==
    \E i \in Present, g \in GradVals :
        /\ Runnable(CondOp(i), {})
        /\ LET r == CondBranch(mini_flag, acc[i], Norm(g, 1)) IN
            /\ acc' = [acc EXCEPT ![i] = r.slot]
            /\ out' = [out EXCEPT ![i] = r.value]
        /\ mgv' = [mgv EXCEPT ![i] = g]
        /\ sum_g' = IF loop_n = num_minibatches /\ i = 1 THEN sum_g + g ELSE sum_g
        /\ Executed(CondOp(i))
        /\ UNCHANGED <<n_accum, n_apply, opt_error,
                       phase, var_list, gvs, grads_and_vars, num_minibatches,
                       mini_flag_attr, reset_input, mini_flag, tl_active, loop_n,
                       minibatch, fetch, applied>>

\* tf.assign(self.mini_flag, [1]) executes
RunSetFlag ==
    /\ Runnable(SetOp, SetFlagDeps)
    /\ mini_flag' = 1
    /\ Executed(SetOp)
    /\ n_accum' = n_accum + 1
    /\ UNCHANGED <<n_apply, opt_error,
                   phase, var_list, gvs, grads_and_vars, num_minibatches,
                   mini_flag_attr, reset_input, acc, tl_active, loop_n, minibatch,
                   fetch, mgv, out, sum_g, applied>>

\* tf.assign(self.mini_flag, [0]) executes
RunResetFlag ==
    /\ Runnable(ResetOp, ResetFlagDeps)
    /\ mini_flag' = 0
    /\ Executed(ResetOp)
    /\ UNCHANGED <<n_accum, n_apply, opt_error,
                   phase, var_list, gvs, grads_and_vars, num_minibatches,
                   mini_flag_attr, reset_input, acc, tl_active, loop_n, minibatch,
                   fetch, mgv, out, sum_g, applied>>

\* the operations of the UPDATE_OPS collection execute
RunUpdateOps ==
    /\ Runnable(UpdateOps, {})
    /\ Executed(UpdateOps)
    /\ UNCHANGED <<n_accum, n_apply, opt_error,
                   phase, var_list, gvs, grads_and_vars, num_minibatches,
                   mini_flag_attr, reset_input, mini_flag, acc, tl_active, loop_n,
                   minibatch, fetch, mgv, out, sum_g, applied>>

\* self._optimizer.apply_gradients(grads_and_vars) executes
RunOptimize ==
    /\ Runnable(OptimizeOp, OptimizeDeps)
    /\ applied' = out
    /\ Executed(OptimizeOp)
    /\ n_apply' = n_apply + 1
    /\ UNCHANGED <<n_accum, opt_error,
                   phase, var_list, gvs, grads_and_vars, num_minibatches,
                   mini_flag_attr, reset_input, mini_flag, acc, tl_active, loop_n,
                   minibatch, fetch, mgv, out, sum_g>>

\* sess.run returns: the run's tensors are gone, the variables keep their values
SessRunReturn ==
    /\ fetch # "none"
    /\ Needed(fetch) \subseteq done
    /\ fetch' = "none"
    /\ IF fetch = "grads"
       THEN /\ minibatch' = minibatch + 1
            /\ UNCHANGED tl_active
       ELSE /\ tl_active' = FALSE
            /\ UNCHANGED minibatch
    /\ done' = {}
    /\ mgv' = NoOut
    /\ out' = NoOut
    /\ UNCHANGED <<n_accum, n_apply, opt_error,
                   phase, var_list, gvs, grads_and_vars, num_minibatches,
                   mini_flag_attr, reset_input, mini_flag, acc, loop_n, sum_g,
                   applied>>

\* ------------------------------------------------------------- average_gradients
MaxDevices == 2   \* towers handed to average_gradients: 1..MaxDevices
MaxPos == 2       \* (gradient, variable) pairs per tower: 1..MaxPos

VARIABLES
    tower_grads,      \* the argument: per device, a list of (gradient, variable)
    average_grads,    \* the list returned
    avg_pc            \* "input", then "returned" or "raised"

avgVars == <<tower_grads, average_grads, avg_pc>>

\* a gradient handed in by a tower: None or a number
TowerGradVals == {None} \cup {Norm(k, 1) : k \in GradVals}

\* D towers of L pairs each; tower d holds its own copy <<d, p>> of variable p
Towers(D, L, f) == [d \in 1..D |-> [p \in 1..L |-> [grad |-> f[d][p], var |-> <<d, p>>]]]

RECURSIVE MinLen(_, _)
MinLen(seqs, d) ==
    IF d = Len(seqs) THEN Len(seqs[d])
    ELSE LET m == MinLen(seqs, d + 1) IN IF Len(seqs[d]) < m THEN Len(seqs[d]) ELSE m

\* zip(*tower_grads): position p of every tower
Zip(tg) ==
    IF Len(tg) = 0 THEN <<>>
    ELSE [p \in 1..MinLen(tg, 1) |-> [d \in 1..Len(tg) |-> tg[d][p]]]

RECURSIVE RSum(_, _)
RSum(gs, d) == IF d > Len(gs) THEN Zero ELSE RAdd(gs[d], RSum(gs, d + 1))

\* tf.reduce_mean(tf.concat(grads, axis=0), axis=0)
reduce_mean(gs) == Divide(RSum(gs, 1), Len(gs))

\* tf.expand_dims(g, axis=0) raises on None
ExpandRaises(column) == \E d \in 1..Len(column) : column[d].grad = None

\* the body of the loop of average_gradients for one position
grad_and_var(column) ==
    IF column[1].grad # None
    THEN [grad |-> reduce_mean([d \in 1..Len(column) |-> column[d].grad]),
          var |-> column[1].var]
    ELSE column[1]

\* the loop raises at a position whose first gradient is present and another is None
AverageRaises(tg) ==
    \E p \in 1..Len(Zip(tg)) : Zip(tg)[p][1].grad # None /\ ExpandRaises(Zip(tg)[p])

AvgInit ==
    /\ \E D \in 1..MaxDevices, L \in 1..MaxPos :
        \E f \in [1..D -> [1..L -> TowerGradVals]] : tower_grads = Towers(D, L, f)
    /\ average_grads = <<>>
    /\ avg_pc = "input"

AvgIdle ==
    /\ tower_grads = <<>>
    /\ average_grads = <<>>
    /\ avg_pc = "idle"

\* MinibatchOptimizer.average_gradients returns
average_gradients ==
    /\ avg_pc = "input"
    /\ ~AverageRaises(tower_grads)
    /\ average_grads' = [p \in 1..Len(Zip(tower_grads)) |-> grad_and_var(Zip(tower_grads)[p])]
    /\ avg_pc' = "returned"
    /\ UNCHANGED tower_grads

\* MinibatchOptimizer.average_gradients raises
average_gradients_raises ==
    /\ avg_pc = "input"
    /\ AverageRaises(tower_grads)
    /\ avg_pc' = "raised"
    /\ UNCHANGED <<tower_grads, average_grads>>

\* ------------------------------------------------------------- ClipOptimizer
MaxHalf == 3      \* the wrapped optimizer's gradient values are k/2, |k| <= MaxHalf

VARIABLES
    clip,             \* self.clip
    trainable_names,  \* self.trainable_names: None or a list of scope names
    clip_var_list,    \* self.var_list
    wrapped_grad,     \* the gradient the wrapped optimizer computes for each variable
    wrapped_arg,      \* var_list given to the wrapped compute_gradients, once called
    clip_gvs,         \* the list compute_gradients returned
    clip_error,       \* the scope named by the ValueError raised
    clip_pc           \* "input", then "returned" or "raised"

clipVars == <<clip, trainable_names, clip_var_list, wrapped_grad, wrapped_arg,
              clip_gvs, clip_error, clip_pc>>

\* the TRAINABLE_VARIABLES collection, and the scopes a caller may name
TrainableVariables == <<"conv1/w", "conv1/b", "fc/w">>
Scopes == {"conv1", "fc", "head"}

\* tf.get_collection(TRAINABLE_VARIABLES, scope=scope_name)
get_collection(scope_name) ==
    IF scope_name = "conv1" THEN <<"conv1/w", "conv1/b">>
    ELSE IF scope_name = "fc" THEN <<"fc/w">>
    ELSE <<>>

ClipGradVals == {None} \cup {Norm(k, 2) : k \in -MaxHalf..MaxHalf}

TrainableNamesChoices ==
    {None} \cup {<<a>> : a \in Scopes} \cup {<<a, b>> : a \in Scopes, b \in Scopes}

One == Norm(1, 1)
MinusOne == Norm(-1, 1)

\* (mutant) only the upper bound is enforced
clip_by_value_upper(grad, lo, hi) == IF RLess(hi, grad) THEN hi ELSE grad

\* tf.clip_by_value(grad, lo, hi)
clip_by_value(grad, lo, hi) ==
    IF RLess(grad, lo) THEN lo ELSE IF RLess(hi, grad) THEN hi ELSE grad

RECURSIVE Concat(_, _)
Concat(seqs, k) == IF k > Len(seqs) THEN <<>> ELSE seqs[k] \o Concat(seqs, k + 1)

\* the scopes of trainable_names that hold no trainable variable, in order
EmptyScopes(names) == SelectSeq(names, LAMBDA n : Len(get_collection(n)) = 0)

\* (mutant) each scope's variables replace the list instead of extending it
train_vars_last(names) ==
    IF names = None THEN None ELSE get_collection(names[Len(names)])

\* train_vars after the loop over self.trainable_names
train_vars(names) ==
    IF names = None THEN None
    ELSE Concat([k \in 1..Len(names) |-> get_collection(names[k])], 1)

\* self._optimizer.compute_gradients(loss, var_list=train_vars)
WrappedCompute(var_list_arg) ==
    LET vs == IF var_list_arg = None THEN TrainableVariables ELSE var_list_arg
    IN [k \in 1..Len(vs) |-> [grad |-> wrapped_grad[vs[k]], var |-> vs[k]]]

RECURSIVE Clipped(_, _)
\* [(tf.clip_by_value(grad, -1., 1.), var) for grad, var in gvs if grad is not None]
Clipped(gv_list, k) ==
    IF k > Len(gv_list) THEN <<>>
    ELSE IF gv_list[k].grad # None
    THEN <<[grad |-> clip_by_value(gv_list[k].grad, MinusOne, One),
            var |-> gv_list[k].var]>> \o Clipped(gv_list, k + 1)
    ELSE Clipped(gv_list, k + 1)

TrainableSet == {TrainableVariables[k] : k \in 1..Len(TrainableVariables)}

ClipInit ==
    /\ clip \in BOOLEAN
    /\ trainable_names \in TrainableNamesChoices
    /\ clip_var_list = None
    /\ wrapped_grad \in [TrainableSet -> ClipGradVals]
    /\ wrapped_arg = Unset
    /\ clip_gvs = <<>>
    /\ clip_error = None
    /\ clip_pc = "input"

ClipIdle ==
    /\ clip = FALSE
    /\ trainable_names = None
    /\ clip_var_list = None
    /\ wrapped_grad = <<>>
    /\ wrapped_arg = Unset
    /\ clip_gvs = <<>>
    /\ clip_error = None
    /\ clip_pc = "idle"

\* ClipOptimizer.compute_gradients returns
clip_compute_gradients ==
    /\ clip_pc = "input"
    /\ trainable_names = None \/ EmptyScopes(trainable_names) = <<>>
    /\ LET tv == train_vars(trainable_names)
           gv_list == WrappedCompute(tv)
       IN /\ clip_var_list' = IF tv # None THEN tv ELSE clip_var_list
          /\ wrapped_arg' = tv
          /\ clip_gvs' = IF clip THEN Clipped(gv_list, 1) ELSE gv_list
    /\ clip_pc' = "returned"
    /\ UNCHANGED <<clip, trainable_names, wrapped_grad, clip_error>>

\* ClipOptimizer.compute_gradients raises ValueError for the first empty scope
clip_compute_gradients_raises ==
    /\ clip_pc = "input"
    /\ trainable_names # None
    /\ EmptyScopes(trainable_names) # <<>>
    /\ clip_error' = <<EmptyScopes(trainable_names)[1]>>
    /\ clip_pc' = "raised"
    /\ UNCHANGED <<clip, trainable_names, clip_var_list, wrapped_grad, wrapped_arg,
                   clip_gvs>>

\* ------------------------------------------------------------- ConvNet
MaxCalls == 3     \* recording calls made on the ConvNet

VARIABLES
    params,           \* self.params: layers in order, each an ordered log name -> kwargs
    _layer,           \* self._layer
    _defaults,        \* self._defaults: function name -> default kwargs
    scope_depth,      \* arg_scope blocks entered and not yet left
    outer_defaults,   \* self._defaults as it was when the open arg_scope block
                      \* was entered (the empty dict outside any block)
    layers,           \* self.layers: layer -> its output, in order
    output,           \* self.output
    state,            \* self.state
    trace,            \* the functions the last replay called, in order (until the
                      \* next recording call or rejected layer(...))
    recorded,         \* one entry per recording call, in call order
    last_given,       \* the arguments the caller passed to the last recording call,
                      \* under their names (until the next replay)
    replay_inp,       \* the inp given to the last replay (until the next
                      \* recording call or rejected layer(...))
    net_pc            \* "recording", or the outcome of the replay or of the
                      \* rejected layer(...) just made

netVars == <<params, _layer, _defaults, scope_depth, outer_defaults, layers, output,
             state, trace, recorded, last_given, replay_inp, net_pc>>

\* a layer name that is None
NoLayer == "None"

\* tensors: the caller's input, an op's output, or None
Tensor(src, layer, name) == [src |-> src, layer |-> layer, name |-> name]
NoTensor == Tensor("None", "", <<"", 0>>)
Image == Tensor("input", "", <<"images", 0>>)
Other == Tensor("input", "", <<"other", 0>>)

\* Python numbers and lists given for shape-like parameters
PyInt(v) == <<"int", <<v>>>>
PyList(l) == <<"list", l>>

\* a name: <<base, 0>> is the string base, <<base, i>> the string base_i
Str(base) == <<base, 0>>

\* fname + '_{}'.format(i)
Format(fname, i) == <<fname[1], i>>

EmptyDict == <<>>

\* dict.update
Update(kw, d) ==
    [k \in DOMAIN kw \cup DOMAIN d |-> IF k \in DOMAIN d THEN d[k] ELSE kw[k]]

\* a dict without some keys
Without(kw, ks) == [k \in DOMAIN kw \ ks |-> kw[k]]

\* inspect.getargspec(func).args, after the first (the input)
VarNames(func) ==
    IF func = "conv" THEN <<"out_depth", "ksize", "strides", "padding">>
    ELSE <<"ksize", "strides", "padding", "data_format", "name">>

\* the recording calls made: m.<func>(*args, **kwargs)
Call(func, args, kwargs) == [func |-> func, args |-> args, kwargs |-> kwargs]

Calls ==
    { Call("conv", <<PyInt(8)>>, EmptyDict),
      Call("max_pool", <<PyInt(3), PyInt(2)>>, EmptyDict),
      Call("conv", <<PyInt(8)>>, "name" :> <<"conv", 1>>),
      Call("max_pool", <<>>, ("inp" :> Other) @@ ("layer" :> "L2")
                               @@ ("ksize" :> PyList(<<2, 2>>))) }

\* the layer names given to m.layer(...)
LayerNames == {"L1"}

\* the defaults given to arg_scope(...) or to the constructor
DefaultsChoices ==
    { EmptyDict,
      "conv" :> (("name" :> Str("c")) @@ ("strides" :> PyInt(2))) }

\* ---- the log
LayerIndex(p, layer) ==
    IF \E k \in 1..Len(p) : p[k].layer = layer
    THEN CHOOSE k \in 1..Len(p) : p[k].layer = layer
    ELSE 0

\* the names recorded in a layer of the log
NamesIn(p, layer) ==
    IF LayerIndex(p, layer) = 0 THEN {}
    ELSE LET log == p[LayerIndex(p, layer)].log
         IN {log[k].name : k \in 1..Len(log)}

\* OrderedDict.__setitem__: a new key goes last, an old key keeps its place
SetItem(log, name, kwargs) ==
    IF \E k \in 1..Len(log) : log[k].name = name
    THEN [k \in 1..Len(log) |->
            IF log[k].name = name THEN [name |-> name, kwargs |-> kwargs] ELSE log[k]]
    ELSE Append(log, [name |-> name, kwargs |-> kwargs])

\* self.params[layer] = OrderedDict() when new, then self.params[layer][name] = kwargs
Store(p, layer, name, kwargs) ==
    LET q == IF LayerIndex(p, layer) = 0
             THEN Append(p, [layer |-> layer, log |-> <<>>]) ELSE p
        at == LayerIndex(q, layer)
    IN [q EXCEPT ![at].log = SetItem(q[at].log, name, kwargs)]

\* ---- the wrapper
\* kwargs[varnames[i+1]] = arg
Positional(func, args) ==
    LET vn == VarNames(func)
    IN [k \in {vn[i] : i \in 1..Len(args)} |->
            args[CHOOSE i \in 1..Len(args) : vn[i] = k]]

\* (mutant) the suffix counts the entries of the layer instead of probing the log
AutoName_count(fname, names) ==
    IF fname \in names THEN Format(fname, Cardinality(names)) ELSE fname

\* the name given when 'name' is not in kwargs
AutoName(fname, names) ==
    IF fname \in names
    THEN Format(fname,
            CHOOSE i \in 1..(Cardinality(names) + 1) :
                /\ Format(fname, i) \notin names
                /\ \A j \in 1..(i - 1) : Format(fname, j) \in names)
    ELSE fname

\* (mutant) a 2-element value is expanded like a scalar, from its first element
_val2list_square(value) ==
    IF value[1] = "int"
    THEN PyList(<<1, value[2][1], value[2][1], 1>>)
    ELSE IF Len(value[2]) = 2
    THEN PyList(<<1, value[2][1], value[2][1], 1>>)
    ELSE value

\* ConvNet._val2list
_val2list(value) ==
    IF value[1] = "int"
    THEN PyList(<<1, value[2][1], value[2][1], 1>>)
    ELSE IF Len(value[2]) = 2
    THEN PyList(<<1, value[2][1], value[2][2], 1>>)
    ELSE value

PoolFuncs == {"avg_pool", "max_pool", "max_pool_with_argmax"}

\* kwargs once the positional arguments are named and 'layer' is popped
Named(call) ==
    Without(Update(Update(call.kwargs, "func_name" :> call.func),
                   Positional(call.func, call.args)),
            {"layer"})

\* kwargs.pop('layer', self._layer)
LayerOf(call) ==
    LET kw == Update(call.kwargs, Positional(call.func, call.args))
    IN IF "layer" \in DOMAIN kw THEN kw["layer"] ELSE _layer

\* kwargs.update(self._defaults[func.__name__])
Defaulted(call) ==
    IF call.func \in DOMAIN _defaults
    THEN Update(Named(call), _defaults[call.func])
    ELSE Named(call)

\* kwargs['name'] is set when absent
WithName(call) ==
    IF "name" \in DOMAIN Defaulted(call) THEN Defaulted(call)
    ELSE Update(Defaulted(call),
                "name" :> AutoName(Str(call.func), NamesIn(params, LayerOf(call))))

\* ksize (pool functions only) and strides go through _val2list
Normalized(kw) ==
    LET k1 == IF "ksize" \in DOMAIN kw /\ kw["func_name"] \in PoolFuncs
              THEN Update(kw, "ksize" :> _val2list(kw["ksize"])) ELSE kw
    IN IF "strides" \in DOMAIN k1
       THEN Update(k1, "strides" :> _val2list(k1["strides"])) ELSE k1

\* the arguments the caller passed, by position or by keyword, under their names
Given(call) == Update(call.kwargs, Positional(call.func, call.args))

\* where the stored name came from
NameFrom(call) ==
    IF call.func \in DOMAIN _defaults /\ "name" \in DOMAIN _defaults[call.func]
    THEN "defaults"
    ELSE IF "name" \in DOMAIN Named(call) THEN "caller" ELSE "auto"

\* ---- replay
\* (mutant) the layers are walked last-recorded first
RECURSIVE Items_rev(_, _)
Items_rev(p, l) ==
    IF l > Len(p) THEN <<>>
    ELSE Items_rev(p, l + 1)
         \o [k \in 1..Len(p[l].log) |->
                [layer |-> p[l].layer, name |-> p[l].log[k].name,
                 kwargs |-> p[l].log[k].kwargs, last |-> k = Len(p[l].log)]]

\* self.params.items(), layer by layer, flattened
RECURSIVE Items(_, _)
Items(p, l) ==
    IF l > Len(p) THEN <<>>
    ELSE [k \in 1..Len(p[l].log) |->
            [layer |-> p[l].layer, name |-> p[l].log[k].name,
             kwargs |-> p[l].log[k].kwargs, last |-> k = Len(p[l].log)]]
         \o Items(p, l + 1)

\* self.layers[layer] = ...
SetLayer(ls, layer, out_tensor) ==
    IF \E k \in 1..Len(ls) : ls[k].layer = layer
    THEN [k \in 1..Len(ls) |->
            IF ls[k].layer = layer THEN [layer |-> layer, output |-> out_tensor] ELSE ls[k]]
    ELSE Append(ls, [layer |-> layer, output |-> out_tensor])

\* kwargs.get('inp', output)
ReplayInput(kwargs, out_tensor) ==
    IF "inp" \in DOMAIN kwargs THEN kwargs["inp"] ELSE out_tensor

\* the loops of __call__ from item k on; st is the interpreter's state
RECURSIVE Replay(_, _, _)
Replay(items, k, st) ==
    IF k > Len(items) \/ st.raised THEN st
    ELSE LET it == items[k]
             input == ReplayInput(it.kwargs, st.output)
             result == Tensor("op", it.layer, it.name)
         IN IF it.layer = NoLayer \/ input = NoTensor
            THEN [st EXCEPT !.raised = TRUE]
            ELSE Replay(items, k + 1,
                    [output |-> result,
                     trace |-> Append(st.trace,
                                [layer |-> it.layer, name |-> it.name,
                                 func_name |-> it.kwargs["func_name"], inp |-> input]),
                     layers |-> IF it.last THEN SetLayer(st.layers, it.layer, result)
                                ELSE st.layers,
                     raised |-> FALSE])

\* ---- operations
\* ConvNet.__init__
NetInit ==
    /\ params = <<>>
    /\ _layer = NoLayer
    /\ _defaults \in DefaultsChoices
    /\ scope_depth = 0
    /\ outer_defaults = EmptyDict
    /\ layers = <<>>
    /\ output = NoTensor
    /\ state = NoTensor
    /\ trace = <<>>
    /\ recorded = <<>>
    /\ last_given = EmptyDict
    /\ replay_inp = NoTensor
    /\ net_pc = "recording"

NetIdle ==
    /\ params = <<>>
    /\ _layer = NoLayer
    /\ _defaults = EmptyDict
    /\ scope_depth = 0
    /\ outer_defaults = EmptyDict
    /\ layers = <<>>
    /\ output = NoTensor
    /\ state = NoTensor
    /\ trace = <<>>
    /\ recorded = <<>>
    /\ last_given = EmptyDict
    /\ replay_inp = NoTensor
    /\ net_pc = "idle"

\* (mutant) the recording call also runs the function on the current output
wrapper_eager ==
    \E call \in Calls :
        /\ Len(recorded) < MaxCalls
        /\ LET kw == Normalized(WithName(call))
           IN /\ params' = Store(params, LayerOf(call), kw["name"], kw)
              /\ recorded' = Append(recorded,
                                [layer |-> LayerOf(call), func |-> call.func,
                                 name |-> kw["name"], from |-> NameFrom(call)])
              /\ last_given' = Given(call)
        /\ net_pc' = "recording"
        /\ trace' = <<>>
        /\ replay_inp' = NoTensor
        /\ output' = Tensor("op", LayerOf(call), Normalized(WithName(call))["name"])
        /\ UNCHANGED <<outer_defaults, _layer, _defaults, scope_depth, layers, state>>

\* a recording call m.<func>(...): ConvNet._func_wrapper.wrapper
wrapper ==
    \E call \in Calls :
        /\ Len(recorded) < MaxCalls
        /\ LET kw == Normalized(WithName(call))
           IN /\ params' = Store(params, LayerOf(call), kw["name"], kw)
              /\ recorded' = Append(recorded,
                                [layer |-> LayerOf(call), func |-> call.func,
                                 name |-> kw["name"], from |-> NameFrom(call)])
              /\ last_given' = Given(call)
        /\ net_pc' = "recording"
        /\ trace' = <<>>
        /\ replay_inp' = NoTensor
        /\ UNCHANGED <<outer_defaults, _layer, _defaults, scope_depth, layers, output, state>>

\* with m.layer(name): entered
layer ==
    \E name \in LayerNames :
        /\ _layer' = name
        /\ UNCHANGED <<last_given, outer_defaults, replay_inp, params, _defaults, scope_depth, layers, output, state, trace,
                       recorded, net_pc>>

\* the names m.layer(...) rejects: None and the empty string
InvalidLayerNames == {NoLayer, ""}

\* with m.layer(name): raises ValueError, self._layer is not assigned
layer_raises ==
    \E name \in InvalidLayerNames :
        /\ net_pc' = "layer_raised"
        /\ trace' = <<>>
        /\ replay_inp' = NoTensor
        /\ UNCHANGED <<last_given, outer_defaults, params, _layer, _defaults, scope_depth, layers,
                       output, state, recorded>>

\* with m.arg_scope(defaults): entered
arg_scope ==
    \E defaults \in DefaultsChoices :
        /\ scope_depth < 1
        /\ _defaults' = defaults
        /\ outer_defaults' = _defaults
        /\ scope_depth' = scope_depth + 1
        /\ UNCHANGED <<last_given, replay_inp, params, _layer, layers, output, state, trace, recorded, net_pc>>

\* with m.arg_scope(defaults): left
arg_scope_exit ==
    /\ scope_depth > 0
    /\ _defaults' = EmptyDict
    /\ outer_defaults' = EmptyDict
    /\ scope_depth' = scope_depth - 1
    /\ UNCHANGED <<last_given, replay_inp, params, _layer, layers, output, state, trace, recorded, net_pc>>

\* with m.arg_scope(defaults): left by an exception raised in the block; the
\* statement after the yield is not reached
arg_scope_exit_raises ==
    /\ scope_depth > 0
    /\ outer_defaults' = EmptyDict
    /\ scope_depth' = scope_depth - 1
    /\ UNCHANGED <<last_given, _defaults, replay_inp, params, _layer, layers, output, state, trace, recorded, net_pc>>

\* m(inp): ConvNet.__call__
__call__ ==
    \E inp \in {NoTensor, Image} :
        LET st == Replay(Items(params, 1), 1,
                    [output |-> inp, trace |-> <<>>, layers |-> layers, raised |-> FALSE])
        IN /\ replay_inp' = inp
           /\ last_given' = EmptyDict
           /\ trace' = st.trace
           /\ layers' = st.layers
           /\ output' = IF st.raised THEN output ELSE st.output
           /\ net_pc' = IF st.raised THEN "raised" ELSE "replayed"
           /\ UNCHANGED <<outer_defaults, params, _layer, _defaults, scope_depth, state, recorded>>

\* ------------------------------------------------------------- shape-like parameters
MaxSide == 2      \* kernel and stride sizes are 1..MaxSide
MaxShapeLen == 4  \* shape lists have 0..MaxShapeLen elements

VARIABLES
    shape_call,       \* the recording call m.<func>(ksize=..., strides=...) to make
    shape_pc          \* "input", then "stored"

shapeVars == <<shape_call, shape_pc>>

\* the functions recorded: the pool functions, and two others
ShapeFuncs == PoolFuncs \cup {"conv", "fc"}

\* the list of l elements a, b, a, b, ...
ListOf(l, a, b) == PyList([i \in 1..l |-> IF i % 2 = 1 THEN a ELSE b])

\* the values given for ksize and strides: an int or a list
ShapeVals ==
    {PyInt(v) : v \in 1..MaxSide}
    \cup {ListOf(l, a, b) : l \in 0..MaxShapeLen, a \in 1..MaxSide, b \in 1..MaxSide}

\* the keyword arguments of the call: ksize and strides, each given or not
ShapeKwargs(hasK, k, hasS, st) ==
    (IF hasK THEN "ksize" :> k ELSE EmptyDict)
    @@ (IF hasS THEN "strides" :> st ELSE EmptyDict)

ShapeInit ==
    /\ \E func \in ShapeFuncs, hasK \in BOOLEAN, hasS \in BOOLEAN,
          k \in ShapeVals, st \in ShapeVals :
            shape_call = Call(func, <<>>, ShapeKwargs(hasK, k, hasS, st))
    /\ shape_pc = "input"

ShapeIdle ==
    /\ shape_call = None
    /\ shape_pc = "idle"

\* the recording call is made on a fresh ConvNet: ConvNet._func_wrapper.wrapper
record_shape ==
    /\ shape_pc = "input"
    /\ LET kw == Normalized(WithName(shape_call))
       IN params' = Store(params, LayerOf(shape_call), kw["name"], kw)
    /\ shape_pc' = "stored"
    /\ UNCHANGED <<last_given, outer_defaults, shape_call, _layer, _defaults, scope_depth, layers, output, state,
                   trace, recorded, replay_inp, net_pc>>

\* ------------------------------------------------------------- specifications
vars == <<optVars, avgVars, clipVars, netVars, shapeVars>>

OptFrame == UNCHANGED <<avgVars, clipVars, netVars, shapeVars>>
AvgFrame == UNCHANGED <<optVars, clipVars, netVars, shapeVars>>
ClipFrame == UNCHANGED <<optVars, avgVars, netVars, shapeVars>>
NetFrame == UNCHANGED <<optVars, avgVars, clipVars, shapeVars>>
ShapeFrame == UNCHANGED <<optVars, avgVars, clipVars>>

\* MinibatchOptimizer under train_loop
Init == OptInit /\ AvgIdle /\ ClipIdle /\ NetIdle /\ ShapeIdle
Next ==
    \/ compute_gradients /\ OptFrame
    \/ accumulate_gradients /\ OptFrame
    \/ accumulate_gradients_raises /\ OptFrame
    \/ apply_gradients /\ OptFrame
    \/ train_loop /\ OptFrame
    \/ SessRunGrads /\ OptFrame
    \/ SessRunAll /\ OptFrame
    \/ RunCond /\ OptFrame
    \/ RunSetFlag /\ OptFrame
    \/ RunResetFlag /\ OptFrame
    \/ RunUpdateOps /\ OptFrame
    \/ RunOptimize /\ OptFrame
    \/ SessRunReturn /\ OptFrame
Spec == Init /\ [][Next]_vars

\* MinibatchOptimizer: compute_gradients and accumulate_gradients in any order
InitSlots == OptInit /\ AvgIdle /\ ClipIdle /\ NetIdle /\ ShapeIdle
NextSlots ==
    \/ compute_gradients_call /\ OptFrame
    \/ accumulate_gradients_call /\ OptFrame
    \/ accumulate_gradients_raises /\ OptFrame
SpecSlots == InitSlots /\ [][NextSlots]_vars

\* MinibatchOptimizer.average_gradients on every bounded input
InitAvg == AvgInit /\ OptInit /\ ClipIdle /\ NetIdle /\ ShapeIdle
NextAvg ==
    \/ average_gradients /\ AvgFrame
    \/ average_gradients_raises /\ AvgFrame
SpecAvg == InitAvg /\ [][NextAvg]_vars

\* ClipOptimizer.compute_gradients on every bounded input
InitClip == ClipInit /\ OptInit /\ AvgIdle /\ NetIdle /\ ShapeIdle
NextClip ==
    \/ clip_compute_gradients /\ ClipFrame
    \/ clip_compute_gradients_raises /\ ClipFrame
SpecClip == InitClip /\ [][NextClip]_vars

\* a ConvNet: recording calls, layer and arg_scope blocks, replay
InitNet == NetInit /\ OptInit /\ AvgIdle /\ ClipIdle /\ ShapeIdle
NextNet ==
    \/ wrapper /\ NetFrame
    \/ layer /\ NetFrame
    \/ layer_raises /\ NetFrame
    \/ arg_scope /\ NetFrame
    \/ arg_scope_exit /\ NetFrame
    \/ arg_scope_exit_raises /\ NetFrame
    \/ __call__ /\ NetFrame
SpecNet == InitNet /\ [][NextNet]_vars

\* one recording call with shape-like parameters, on every bounded input
InitShape == ShapeInit /\ OptInit /\ AvgIdle /\ ClipIdle /\ NetIdle
NextShape ==
    \/ record_shape /\ ShapeFrame
SpecShape == InitShape /\ [][NextShape]_vars

\* ============================================================= claims
AllPresent == Present = Vars

\* (g_1 + ... + g_N) / N of the first variable
Mean == Norm(sum_g, num_minibatches)

\* C1: after the N-th run of the accumulation operation built with
\* num_minibatches = N (flag 0 before the first run, every gradient present),
\* each variable's accumulator slot equals (g_1 + ... + g_N) / N (stated for the
\* first variable, whose gradients sum_g adds up).
C1_AccumulatorIsMean ==
    (/\ fetch = "all"
     /\ loop_n = num_minibatches
     /\ AllPresent
     /\ only_grads_without_None \subseteq done)
    => acc[1] = Mean

\* C2: one train_loop call with num_minibatches = N hands the wrapped
\* optimizer's apply_gradients, for each variable, the mean of the N minibatch
\* gradients of that call (stated for the first variable).
C2_AppliedIsMean ==
    (/\ fetch = "all"
     /\ loop_n = num_minibatches
     /\ 1 \in Present
     /\ OptimizeOp \in done)
    => applied[1] = Mean

\* C3: in a run of both operations every per-variable accumulator update
\* is executed before the flag is set to 1, the flag is set to 1 before it is
\* reset to 0, and it is reset to 0 (and still 0) before the wrapped optimizer's
\* update executes.
C3_Ordering ==
    /\ SetOp \in done => only_grads_without_None \subseteq done
    /\ ResetOp \in done => SetOp \in done
    /\ OptimizeOp \in done => (ResetOp \in done /\ mini_flag = 0)
    /\ (SetOp \in done /\ ResetOp \notin done) => mini_flag = 1

C3_Witness ==
    /\ fetch = "all"
    /\ AllPresent
    /\ OptimizeOp \in done
    /\ \A i \in Vars : CondOp(i) \in done

\* C4: over consecutive train_loop calls with any num_minibatches each, the
\* flag is 0 when a call starts and 1 after every accumulation-only run, and the
\* first accumulation of a call sets the slot to gradient / N, whatever the
\* previous call left in it.
C4_FlagProtocol ==
    /\ (tl_active /\ fetch = "none" /\ minibatch = 0) => mini_flag = 0
    /\ (tl_active /\ fetch = "none" /\ minibatch > 0) => mini_flag = 1
    /\ \A i \in Present :
        (fetch # "none" /\ minibatch = 0 /\ CondOp(i) \in done)
        => acc[i] = Divide(Norm(mgv[i], 1), num_minibatches)

\* a later call's first run: one slot already set, the other still holding what
\* the previous call left
C4_Witness ==
    /\ tl_active
    /\ fetch = "grads"
    /\ minibatch = 0
    /\ \E i, j \in Present :
        /\ CondOp(i) \in done
        /\ CondOp(j) \notin done
        /\ acc[j] # Zero
        /\ acc[i] = Divide(Norm(mgv[i], 1), num_minibatches)

\* C5: an accumulation executed with the flag at 0 leaves the slot, and
\* returns, gradient / num_minibatches: the result does not depend on what the
\* slot held before.
C5_FirstDiscardsPrior ==
    [][\A i \in Vars :
        (mini_flag = 0 /\ CondOp(i) \notin done /\ CondOp(i) \in done')
        => /\ acc'[i] = Divide(Norm(mgv'[i], 1), num_minibatches)
           /\ out'[i] = acc'[i]]_vars

\* a slot holding a previous call's content has been overwritten in a final run
C5_Witness ==
    /\ fetch = "all"
    /\ minibatch = 0
    /\ mini_flag = 0
    /\ \E i, j \in Present :
        /\ CondOp(i) \in done
        /\ CondOp(j) \notin done
        /\ acc[j] # Zero
        /\ acc[i] # acc[j]
        /\ out[i] = acc[i]

\* C6: over two devices average_gradients returns (g_a + g_b) / 2 for a
\* variable both devices have a gradient for, and for a variable where exactly
\* one device's gradient is None it returns the other device's gradient for
\* that variable, without raising.
C6_AverageIgnoresNone ==
    (avg_pc \in {"returned", "raised"} /\ Len(tower_grads) = 2)
    => /\ avg_pc = "returned"
       /\ \A p \in 1..Len(tower_grads[1]) :
            LET a == tower_grads[1][p]
                b == tower_grads[2][p]
                r == average_grads[p]
            IN /\ (a.grad # None /\ b.grad # None)
                    => r.grad = Divide(RAdd(a.grad, b.grad), 2)
               /\ (a.grad = None /\ b.grad # None) => r.grad = b.grad
               /\ (a.grad # None /\ b.grad = None) => r.grad = a.grad

\* C7: for D >= 1 devices with equal-length lists average_gradients returns
\* one pair per position, in order, carrying the first device's variable; the
\* gradient is the mean of all D gradients when the first device's gradient is
\* present, and the first device's pair unchanged when it is None.
C7_AveragePerPosition ==
    avg_pc \in {"returned", "raised"}
    => /\ avg_pc = "returned"
       /\ Len(average_grads) = Len(tower_grads[1])
       /\ \A p \in 1..Len(tower_grads[1]) :
            /\ average_grads[p].var = tower_grads[1][p].var
            /\ tower_grads[1][p].grad # None
                => average_grads[p].grad =
                    reduce_mean([d \in 1..Len(tower_grads) |-> tower_grads[d][p].grad])
            /\ tower_grads[1][p].grad = None
                => average_grads[p] = tower_grads[1][p]

ClipInRange(g) == ~RLess(g, MinusOne) /\ ~RLess(One, g)

\* what C8 says of a returned list: it holds, in order, exactly the pairs the
\* wrapped optimizer gave a gradient for, each clamped to [-1, 1]
ClipPostcondition ==
    LET given == WrappedCompute(wrapped_arg)
        kept == SelectSeq(given, LAMBDA gv : gv.grad # None)
    IN /\ Len(clip_gvs) = Len(kept)
       /\ \A k \in 1..Len(clip_gvs) :
            LET g == kept[k].grad
                r == clip_gvs[k]
            IN /\ r.var = kept[k].var
               /\ r.grad # None
               /\ ClipInRange(r.grad)
               /\ RLess(One, g) => r.grad = One
               /\ RLess(g, MinusOne) => r.grad = MinusOne
               /\ ClipInRange(g) => r.grad = g

\* C8 (as claimed): every pair returned by ClipOptimizer.compute_gradients
\* has a defined gradient within [-1, 1], clamped to the nearest bound or
\* unchanged, and the pairs with an undefined gradient are dropped.
C8_Original == clip_pc = "returned" => ClipPostcondition

\* C8 (amended): the same, for a ClipOptimizer whose clip option is True;
\* with clip False the wrapped optimizer's list is returned as it is.
C8_ClippedWhenClipOn ==
    clip_pc = "returned"
    => IF clip THEN ClipPostcondition
       ELSE clip_gvs = WrappedCompute(wrapped_arg)

\* a clipped return that dropped an undefined gradient and clamped at both bounds
C8_Witness ==
    /\ clip_pc = "returned"
    /\ clip
    /\ \E k \in 1..Len(WrappedCompute(wrapped_arg)) :
        WrappedCompute(wrapped_arg)[k].grad = None
    /\ \E k \in 1..Len(clip_gvs) :
        /\ clip_gvs[k].grad = One
        /\ RLess(One, wrapped_grad[clip_gvs[k].var])
    /\ \E k \in 1..Len(clip_gvs) :
        /\ clip_gvs[k].grad = MinusOne
        /\ RLess(wrapped_grad[clip_gvs[k].var], MinusOne)

\* ---- ConvNet
Key(e) == <<e.layer, e.name>>

\* the names recorded in the layer of call idx before that call
PriorNames(idx) ==
    {recorded[j].name : j \in {j \in 1..(idx - 1) : recorded[j].layer = recorded[idx].layer}}

\* call idx is the k-th call of its function in its layer that was given no name
Ordinal(idx) ==
    Cardinality({j \in 1..idx :
        /\ recorded[j].from = "auto"
        /\ recorded[j].layer = recorded[idx].layer
        /\ recorded[j].func = recorded[idx].func})

OrdinalName(func, k) == IF k = 1 THEN <<func, 0>> ELSE <<func, k - 1>>

\* <op> when free, else <op>_i for the least i >= 1 that is free
FirstFree(func, names) ==
    IF <<func, 0>> \notin names THEN <<func, 0>>
    ELSE <<func, CHOOSE i \in 1..(Cardinality(names) + 1) :
                    /\ <<func, i>> \notin names
                    /\ \A j \in 1..(i - 1) : <<func, j>> \in names>>

\* C9 (as claimed): the k-th call of <op> made without a name in a layer is
\* stored under <op> for k = 1 and under <op>_(k-1) for k >= 2, and a generated
\* name never equals a name already in that layer's log.
C9_Original ==
    \A idx \in 1..Len(recorded) :
        recorded[idx].from = "auto"
        => /\ recorded[idx].name = OrdinalName(recorded[idx].func, Ordinal(idx))
           /\ recorded[idx].name \notin PriorNames(idx)

\* C9 (amended): a call given no name by the caller or by the configured
\* defaults is stored under <op> when the layer's log has no entry <op>, else
\* under <op>_i for the least i >= 1 with no entry <op>_i; that name is never one
\* already in the layer's log; and it is <op> for k = 1, <op>_(k-1) for k >= 2
\* when every earlier entry of the layer was given its name in the same way.
C9_AutoNaming ==
    \A idx \in 1..Len(recorded) :
        recorded[idx].from = "auto"
        => /\ recorded[idx].name = FirstFree(recorded[idx].func, PriorNames(idx))
           /\ recorded[idx].name \notin PriorNames(idx)
           /\ (\A j \in 1..(idx - 1) :
                    recorded[j].layer = recorded[idx].layer => recorded[j].from = "auto")
               => recorded[idx].name = OrdinalName(recorded[idx].func, Ordinal(idx))

\* three unnamed conv calls in one layer: conv, conv_1, conv_2
C9_Witness ==
    /\ Len(recorded) = 3
    /\ \A j \in 1..3 :
        /\ recorded[j].from = "auto"
        /\ recorded[j].layer = "L1"
        /\ recorded[j].name = OrdinalName("conv", j)

TraceKeys == [k \in 1..Len(trace) |-> Key(trace[k])]
RecordedKeys == [k \in 1..Len(recorded) |-> Key(recorded[k])]

\* the first recording call into a layer, and under a key
FirstOfLayer(l) == CHOOSE j \in 1..Len(recorded) :
    /\ recorded[j].layer = l
    /\ \A i \in 1..(j - 1) : recorded[i].layer # l
FirstOfKey(key) == CHOOSE j \in 1..Len(recorded) :
    /\ Key(recorded[j]) = key
    /\ \A i \in 1..(j - 1) : Key(recorded[i]) # key
LastOfKey(key) == CHOOSE j \in 1..Len(recorded) :
    /\ Key(recorded[j]) = key
    /\ \A i \in (j + 1)..Len(recorded) : Key(recorded[i]) # key

\* the order of the log: layers by first recording, names within a layer likewise
LogBefore(x, y) ==
    \/ FirstOfLayer(x[1]) < FirstOfLayer(y[1])
    \/ x[1] = y[1] /\ FirstOfKey(x) < FirstOfKey(y)

\* every key was recorded once, and the calls into each layer were consecutive
RecordedOnceInBlocks ==
    /\ \A i, j \in 1..Len(recorded) : Key(recorded[i]) = Key(recorded[j]) => i = j
    /\ \A i, j, k \in 1..Len(recorded) :
        (i < j /\ j < k /\ recorded[i].layer = recorded[k].layer)
        => recorded[j].layer = recorded[i].layer

\* C10 (as claimed): replay executes every recorded operation exactly once,
\* in the order in which the operations were recorded (stated for replays that
\* complete, of recordings that never reuse a name).
C10_Original ==
    (/\ net_pc = "replayed"
     /\ \A i, j \in 1..Len(recorded) : Key(recorded[i]) = Key(recorded[j]) => i = j)
    => TraceKeys = RecordedKeys

\* C10 (amended): a replay that completes executes every entry of the log
\* exactly once (for a name recorded twice, the call recorded last), layer by
\* layer in the order the layers were first recorded and within a layer in the
\* order the names were first recorded; that is the recording order when the
\* calls into each layer were consecutive and no name was recorded twice.
C10_ReplayInLogOrder ==
    net_pc = "replayed"
    => /\ {TraceKeys[k] : k \in 1..Len(trace)} = {RecordedKeys[k] : k \in 1..Len(recorded)}
       /\ \A a, b \in 1..Len(trace) : TraceKeys[a] = TraceKeys[b] => a = b
       /\ \A a, b \in 1..Len(trace) : a < b => LogBefore(TraceKeys[a], TraceKeys[b])
       /\ \A a \in 1..Len(trace) :
            trace[a].func_name = recorded[LastOfKey(TraceKeys[a])].func
       /\ RecordedOnceInBlocks => TraceKeys = RecordedKeys

\* a completed replay of calls recorded into L1, then L2, then L1 again
C10_Witness ==
    /\ net_pc = "replayed"
    /\ Len(recorded) = 3
    /\ Len(trace) = 3
    /\ recorded[1].layer = "L1"
    /\ recorded[2].layer = "L2"
    /\ recorded[3].layer = "L1"
    /\ TraceKeys = <<RecordedKeys[1], RecordedKeys[3], RecordedKeys[2]>>

\* the number of entries in the log, over all layers
LogSize(p) == Len(Items(p, 1))

\* C11: every recording call adds exactly one new entry to its layer's log and
\* leaves every entry recorded before (its key, its position, its argument map)
\* as it was, so that after n recording calls the log holds n entries.
C11_AppendOnly ==
    [][recorded' # recorded
       => /\ LogSize(params') = LogSize(params) + 1
          /\ LogSize(params') = Len(recorded')
          /\ \A l \in 1..Len(params) :
                /\ params'[l].layer = params[l].layer
                /\ \A k \in 1..Len(params[l].log) :
                      params'[l].log[k] = params[l].log[k]]_vars

\* ---- MinibatchOptimizer, continued
Built == phase \in {"accumulated", "ready"}

RunComplete == fetch # "none" /\ Needed(fetch) \subseteq done

\* C12: a position whose minibatch gradient is None is skipped: no update is
\* built for it, its accumulator keeps its value, its pair is absent from the
\* returned list; the other positions are accumulated as usual, the flag is
\* still set to 1 and no error is raised.
C12_NoneSkipped ==
    Built =>
        /\ opt_error = None
        /\ \A i \in Vars : ~gvs[i] =>
              /\ CondOp(i) \notin Needed("grads") \cup Needed("all") \cup done
              /\ acc[i] = Zero
              /\ out[i] = None
              /\ \A k \in 1..Len(grads) : grads[k].var # i
        /\ \A j \in Vars : gvs[j] =>
              /\ CondOp(j) \in Needed("grads")
              /\ \E k \in 1..Len(grads) : grads[k] = [grad |-> CondOp(j), var |-> j]
              /\ RunComplete => out[j] # None /\ acc[j] # Zero
        /\ RunComplete => mini_flag = IF fetch = "grads" THEN 1 ELSE 0

\* an accumulation run completed with one gradient None and the other present
C12_Witness ==
    /\ Built
    /\ fetch = "grads"
    /\ RunComplete
    /\ mini_flag = 1
    /\ \E i, j \in Vars : ~gvs[i] /\ gvs[j] /\ out[j] # None

\* C13: accumulate_gradients called before any compute_gradients call has
\* established the variable list fails with an error, and the failure leaves the
\* optimizer as it was: no accumulator slot is created (grads_and_vars stays
\* unset) and the flag is not modified. While the variable list is unset, the
\* only other step is the compute_gradients call that establishes it.
C13_FailsUnchanged ==
    [][var_list = Unset
       => \/ /\ opt_error' = AttributeError
             /\ grads_and_vars' = None
             /\ UNCHANGED <<phase, var_list, gvs, grads_and_vars, num_minibatches,
                            mini_flag_attr, reset_input, mini_flag, acc>>
          \/ /\ var_list' # Unset
             /\ opt_error' = None
             /\ UNCHANGED <<grads_and_vars, mini_flag_attr, mini_flag, acc>>]_vars

\* the call has failed: nothing is built, the flag is the fresh variable
C13_Witness ==
    /\ opt_error = AttributeError
    /\ var_list = Unset
    /\ grads_and_vars = None
    /\ mini_flag_attr = "variable"
    /\ mini_flag = 0

\* ---- ClipOptimizer, continued
\* the variables of a scope, read off the TRAINABLE_VARIABLES collection
ScopeOf(v) == IF v \in {"conv1/w", "conv1/b"} THEN "conv1" ELSE "fc"
ScopeVars(scope_name) == SelectSeq(TrainableVariables, LAMBDA v : ScopeOf(v) = scope_name)

\* the scope names of the list, as a set
NamesOf(names) == {names[k] : k \in 1..Len(names)}

C14_Returned ==
    /\ clip_pc = "returned"
    /\ trainable_names = <<"fc", "conv1">>
    /\ wrapped_arg = <<"fc/w", "conv1/w", "conv1/b">>

\* ---- ConvNet, continued
\* C15: a None or empty-string layer name is rejected at once, so that after any
\* sequence of layer(name) blocks and recording calls (with or without layer=)
\* no layer of the log is keyed by None or by the empty string.
C15_NoInvalidLayerKey ==
    \A l \in 1..Len(params) : params[l].layer \notin InvalidLayerNames

\* ---- train_loop
\* C16: one call of train_loop with num_minibatches N >= 1 executes the
\* accumulation target exactly N times (N-1 accumulation-only runs, then one run
\* of all targets) and the optimizer-apply target exactly once, in the last run.
C16_RunCounts ==
    (phase = "ready" /\ loop_n >= 1) =>
        /\ fetch = "grads" => /\ minibatch < loop_n - 1
                              /\ n_accum \in {minibatch, minibatch + 1}
                              /\ n_apply = 0
        /\ fetch = "all" => /\ minibatch = loop_n - 1
                            /\ n_accum \in {loop_n - 1, loop_n}
                            /\ n_apply \in {0, 1}
                            /\ n_apply = 1 => n_accum = loop_n
        /\ (tl_active /\ fetch = "none") => n_accum = minibatch /\ n_apply = 0
        /\ ~tl_active => /\ minibatch = loop_n - 1
                         /\ n_accum = loop_n
                         /\ n_apply = 1

\* a call with num_minibatches = MaxN has returned
C16_Witness ==
    /\ phase = "ready"
    /\ ~tl_active
    /\ loop_n = MaxN
    /\ minibatch = MaxN - 1
    /\ n_accum = MaxN
    /\ n_apply = 1

\* C17: in the run that executes the apply operation, the reset of the flag to 0
\* completes before any operation of the UPDATE_OPS collection executes.
C17_ResetBeforeUpdateOps ==
    (fetch = "all" /\ UpdateOps \in done) => ResetOp \in done

\* the output of the operation replay executed for an entry of the log
OutputOf(e) == Tensor("op", e.layer, e.name)

\* the argument map the log holds under a key
KwargsAt(key) ==
    LET log == params[LayerIndex(params, key[1])].log
    IN log[CHOOSE k \in 1..Len(log) : log[k].name = key[2]].kwargs

\* the last recording call made into a layer
LastOfLayer(l) == CHOOSE j \in 1..Len(recorded) :
    /\ recorded[j].layer = l
    /\ \A i \in (j + 1)..Len(recorded) : recorded[i].layer # l

\* the input replay must give the k-th operation it executes
ExpectedInput(k) ==
    IF "inp" \in DOMAIN KwargsAt(TraceKeys[k]) THEN KwargsAt(TraceKeys[k])["inp"]
    ELSE IF k = 1 THEN replay_inp
    ELSE OutputOf(trace[k - 1])

\* C18: in a replay each operation receives the output of the operation
\* executed immediately before it (the caller's input for the first), or its
\* recorded 'inp' override; a None input makes replay raise; after replay
\* layers[L] is the output of the last operation recorded in L, for each layer L,
\* and output is the output of the last operation executed.
C18_ReplayDataFlow ==
    net_pc = "replayed" =>
        /\ \A k \in 1..Len(trace) :
              trace[k].inp = ExpectedInput(k) /\ trace[k].inp # NoTensor
        /\ output = IF trace = <<>> THEN replay_inp ELSE OutputOf(trace[Len(trace)])
        /\ Len(layers) = Len(params)
        /\ \A l \in 1..Len(layers) :
              layers[l].output = OutputOf(recorded[LastOfLayer(layers[l].layer)])

\* C19: a recording call never executes the operation: it changes only the
\* specification log (params) and leaves layers, output and state as they were;
\* operations are executed only by replay.
C19_RecordOnly ==
    [][/\ recorded' # recorded
          => UNCHANGED <<layers, output, state, _layer, _defaults, scope_depth>>
       /\ (layers' # layers \/ output' # output \/ state' # state)
          => /\ recorded' = recorded
             /\ params' = params
             /\ net_pc' \in {"replayed", "raised"}]_vars

\* a recording call made after a replay: the replay's results are still there
C19_Witness ==
    /\ net_pc = "recording"
    /\ recorded # <<>>
    /\ output.src = "op"
    /\ layers # <<>>

\* ---- shape-like parameters
\* the argument map the call of SpecShape stored
ShapeStored == params[1].log[1].kwargs

\* an integer v becomes [1, v, v, 1], [a, b] becomes [1, a, b, 1], else unchanged
ShapeNormal(v) ==
    IF v[1] = "int" THEN <<"list", <<1, v[2][1], v[2][1], 1>>>>
    ELSE IF Len(v[2]) = 2 THEN <<"list", <<1, v[2][1], v[2][2], 1>>>>
    ELSE v

\* C20: at record time an integer v becomes [1, v, v, 1], a 2-element value
\* [a, b] becomes [1, a, b, 1] and any other value is stored unchanged, so that
\* normalizing a normalized value changes nothing; ksize is normalized only for
\* avg_pool, max_pool and max_pool_with_argmax and stored as given for every
\* other function; strides is normalized for every function.
C20_ShapeNormalized ==
    shape_pc = "stored" =>
        LET given == shape_call.kwargs
            pool == shape_call.func \in {"avg_pool", "max_pool", "max_pool_with_argmax"}
        IN /\ "ksize" \in DOMAIN ShapeStored <=> "ksize" \in DOMAIN given
           /\ "strides" \in DOMAIN ShapeStored <=> "strides" \in DOMAIN given
           /\ "ksize" \in DOMAIN given =>
                ShapeStored["ksize"] =
                    IF pool THEN ShapeNormal(given["ksize"]) ELSE given["ksize"]
           /\ "strides" \in DOMAIN given =>
                /\ ShapeStored["strides"] = ShapeNormal(given["strides"])
                /\ _val2list(ShapeStored["strides"]) = ShapeStored["strides"]

\* conv(ksize=2, strides=[1, 2]): ksize stays 2, strides becomes [1, 1, 2, 1]
C20_Witness ==
    /\ shape_pc = "stored"
    /\ shape_call.func = "conv"
    /\ shape_call.kwargs = ("ksize" :> PyInt(2)) @@ ("strides" :> PyList(<<1, 2>>))
    /\ ShapeStored["ksize"] = PyInt(2)
    /\ ShapeStored["strides"] = PyList(<<1, 1, 2, 1>>)

\* ---- accumulator slots
\* C21: the accumulator slots are created on the first accumulate_gradients
\* call, one per variable of the variable list and in its order, and are never
\* created, replaced or dropped afterwards; consequently, after any sequence of
\* compute_gradients and accumulate_gradients calls, slot i is paired with the
\* variable at position i of the current variable list.
C21_SlotsFollowVarList ==
    /\ [][/\ grads_and_vars # None => grads_and_vars' = grads_and_vars
          /\ (grads_and_vars = None /\ grads_and_vars' # None)
                => (phase' = "accumulated" /\ grads_and_vars' = var_list)]_vars
    /\ [](grads_and_vars # None => grads_and_vars = var_list)

\* ---- defaults
\* the last recording call made, and the argument map it stored
LastCall == recorded[Len(recorded)]
LastStored == KwargsAt(Key(LastCall))

\* the value stored for a parameter the caller passed (shape-like parameters are
\* stored normalized)
StoredForm(func, k, v) ==
    IF k = "strides" \/ (k = "ksize" /\ func \in PoolFuncs) THEN ShapeNormal(v) ELSE v

\* C22: an argument the caller passes explicitly (by keyword or by position) is
\* stored with the caller's value even when the configured defaults of the
\* function hold the same parameter; the defaults only supply the parameters the
\* call did not pass.
C22_CallerWins ==
    net_pc = "recording" /\ recorded # <<>> =>
        \A k \in DOMAIN last_given \ {"layer"} :
            /\ k \in DOMAIN LastStored
            /\ LastStored[k] = StoredForm(LastCall.func, k, last_given[k])

\* C23: arg_scope is properly scoped: inside the block the given defaults are
\* in effect, and once the block is left, normally or by an exception, the
\* defaults in effect are again those in effect before the block was entered,
\* the constructor's defaults included.
C23_ArgScopeRestores ==
    [][/\ scope_depth' > scope_depth => _defaults' \in DefaultsChoices
       /\ (scope_depth > 0 /\ scope_depth' = scope_depth) => _defaults' = _defaults
       /\ scope_depth' < scope_depth => _defaults' = outer_defaults]_vars

====
